---------------------------- MODULE Spec2Model ----------------------------
(***************************************************************************)
(* A model of github.com/tecbot/fbmessenger: the webhook http.Handler      *)
(* (WebhookHandler, handleVerification, handleCallbacks, callback.Event)   *)
(* and the Sender's outbound call (SendMessage, SendAction, send,          *)
(* checkResponse), the construction of Senders (NewSender and its         *)
(* options), and the object model's Source methods.                       *)
(*                                                                         *)
(* JSON texts are modelled as JSON values, and encoding/json's Unmarshal   *)
(* into the handler's Go types is modelled field by field (Dec... below).  *)
(***************************************************************************)
EXTENDS Integers, Sequences, FiniteSets, TLC

VARIABLES
    verifyTokens,   \* webhook.verifyTokens: the configured set of tokens
    pc,             \* position of the handler serving the current request
    req,            \* the *http.Request being served
    cbs,            \* handleCallbacks' local cbs.Pages after json.Unmarshal
    pi,             \* index of the outer loop (range cbs.Pages)
    ci,             \* index of the inner loop (range page.Callbacks)
    events,         \* the Events passed to the listener for this request
    status,         \* status given to w.WriteHeader, 0 while not written
    respBody,       \* bytes given to w.Write
    emittedAtWrite, \* number of listener calls made when WriteHeader ran
    spc,            \* position of the Sender operation
    sop,            \* the Sender operation and its arguments
    ctx,            \* state of the context.Context the caller passed
    ctxAtResponse,  \* state of that context when client.Do returned
    transport,      \* what s.client.Do returned: an error or a response
    result,         \* what SendMessage / SendAction returned
    call,           \* the *http.Request send made: its URL and its client
    urls,           \* the url.URL values in memory, by address
    senders,        \* the Senders NewSender has returned, in order
    rendering,      \* the Object whose Source method is called
    source          \* what that Source() returned, <<>> before the call

wvars == <<verifyTokens, pc, req, cbs, pi, ci, events, status, respBody,
           emittedAtWrite>>
svars == <<spc, sop, ctx, ctxAtResponse, transport, result, call>>
cvars == <<urls, senders>>
rvars == <<rendering, source>>
vars == <<verifyTokens, pc, req, cbs, pi, ci, events, status, respBody,
          emittedAtWrite, spc, sop, ctx, ctxAtResponse, transport, result,
          call, urls, senders, rendering, source>>

----------------------------------------------------------------------------
(* Bounds of the model. *)

\* most entries ("entry" array elements) in a generated POST body
MaxEntries == 2
\* most callbacks ("messaging" array elements) in a generated POST body
MaxCallbacks == 2

----------------------------------------------------------------------------
(* JSON values: every value carries all five fields so that any two can be *)
(* compared; only the field its kind names is meaningful.                  *)

NoObj == <<>>

JNull == [kind |-> "null", str |-> "", num |-> 0, obj |-> NoObj, arr |-> <<>>]
JStr(s) == [kind |-> "string", str |-> s, num |-> 0, obj |-> NoObj, arr |-> <<>>]
JNum(n) == [kind |-> "number", str |-> "", num |-> n, obj |-> NoObj, arr |-> <<>>]
JObj(f) == [kind |-> "object", str |-> "", num |-> 0, obj |-> f, arr |-> <<>>]
JArr(a) == [kind |-> "array", str |-> "", num |-> 0, obj |-> NoObj, arr |-> a]

\* the value of key k of a JSON object; an absent key leaves the Go field
\* at its zero value, exactly as a null does
Field(j, k) == IF k \in DOMAIN j.obj THEN j.obj[k] ELSE JNull

----------------------------------------------------------------------------
(* Request bodies.  A body is kept as a description of its bytes, and     *)
(* BodyJSON gives the JSON value those bytes spell.                        *)
(*   callback: [shape, known, linking, unknown, ts]                        *)
(*     shape    "object", "null", or "mistyped" (an object whose message   *)
(*              is a string), "bare" (an object without sender,            *)
(*              recipient and timestamp), "nullmessage" (an object whose   *)
(*              message is null)                                           *)
(*     known    the known callback fields present, but account_linking     *)
(*     linking  the status of account_linking, "" when it is absent        *)
(*     unknown  the other top-level keys present                           *)
(*     ts       the callback's timestamp                                   *)
(*   entry:    [shape, id, time, messaging]                                *)
(*   body:     [read, syntax, top, entries]                                *)

IdObj(id) == JObj("id" :> JStr(id))
Envelope(ts) ==
    ("sender" :> IdObj("U1") @@ "recipient" :> IdObj("P9") @@ "timestamp" :> JNum(ts))

\* the JSON object of each known callback field but account_linking
PayloadJSON ==
    (  "message"  :> JObj("mid" :> JStr("m1") @@ "text" :> JStr("hi"))
    @@ "delivery" :> JObj("watermark" :> JNum(7))
    @@ "read"     :> JObj("watermark" :> JNum(8) @@ "seq" :> JNum(2))
    @@ "postback" :> JObj("payload" :> JStr("pb"))
    @@ "optin"    :> JObj("ref" :> JStr("r1"))
    @@ "referral" :> JObj("ref" :> JStr("r2") @@ "type" :> JStr("OPEN_THREAD")) )

\* the JSON value of each key that no field of callback is tagged with,
\* and of the key Extra
UnknownJSON ==
    (  "foo"   :> JStr("bar")
    @@ "zip"   :> JNum(5)
    @@ "Extra" :> JObj("k" :> JStr("v")) )

LinkingJSON(st) ==
    IF st = "" THEN <<>>
    ELSE ("account_linking" :> JObj("status" :> JStr(st)
                                    @@ "authorization_code" :> JStr("code1")))

CallbackJSON(c) ==
    IF c.shape = "null" THEN JNull
    ELSE JObj(   (IF c.shape = "bare" THEN <<>> ELSE Envelope(c.ts))
              @@ (IF c.shape = "mistyped" THEN ("message" :> JStr("oops"))
                  ELSE IF c.shape = "nullmessage" THEN ("message" :> JNull)
                  ELSE <<>>)
              @@ [k \in c.known |-> PayloadJSON[k]]
              @@ LinkingJSON(c.linking)
              @@ [k \in c.unknown |-> UnknownJSON[k]] )

EntryJSON(e) ==
    CASE e.shape = "null" -> JNull
      [] e.shape = "nomessaging" -> JObj("id" :> JStr(e.id) @@ "time" :> JNum(e.time))
      [] e.shape = "mistyped" ->
            JObj("id" :> JNum(1) @@ "time" :> JNum(e.time)
                 @@ "messaging" :> JArr([k \in 1..Len(e.messaging) |->
                                            CallbackJSON(e.messaging[k])]))
      [] OTHER ->
            JObj("id" :> JStr(e.id) @@ "time" :> JNum(e.time)
                 @@ "messaging" :> JArr([k \in 1..Len(e.messaging) |->
                                            CallbackJSON(e.messaging[k])]))

\* the JSON value of a body whose bytes are a JSON text
BodyJSON(b) ==
    CASE b.top = "null" -> JNull
      [] b.top = "string" -> JStr("hello")
      [] b.top = "noentry" -> JObj("object" :> JStr("page"))
      [] b.top = "mistyped" -> JObj("object" :> JStr("page") @@ "entry" :> JStr("x"))
      [] OTHER ->
            JObj("object" :> JStr("page")
                 @@ "entry" :> JArr([k \in 1..Len(b.entries) |-> EntryJSON(b.entries[k])]))

----------------------------------------------------------------------------
(* encoding/json Unmarshal into the Go types of handleCallbacks.  Each     *)
(* decoder returns [err, v]: err is TRUE when Unmarshal returns an error   *)
(* (a JSON value of the wrong kind for the Go type), v the decoded value.  *)

\* a Go string field
DecString(j) ==
    CASE j.kind = "string" -> [err |-> FALSE, v |-> j.str]
      [] j.kind = "null"   -> [err |-> FALSE, v |-> ""]
      [] OTHER             -> [err |-> TRUE,  v |-> ""]

\* a Go int / int64 field
DecInt(j) ==
    CASE j.kind = "number" -> [err |-> FALSE, v |-> j.num]
      [] j.kind = "null"   -> [err |-> FALSE, v |-> 0]
      [] OTHER             -> [err |-> TRUE,  v |-> 0]

\* a Go map[string]interface{} field: a nil map is the empty function
DecMap(j) ==
    CASE j.kind = "object" -> [err |-> FALSE, v |-> j.obj]
      [] j.kind = "null"   -> [err |-> FALSE, v |-> NoObj]
      [] OTHER             -> [err |-> TRUE,  v |-> NoObj]

\* struct { ID string `json:"id"` }: callback.Sender and callback.Recipient
DecID(j) ==
    CASE j.kind = "object" ->
            LET id == DecString(Field(j, "id"))
            IN  [err |-> id.err, v |-> [ID |-> id.v]]
      [] j.kind = "null"   -> [err |-> FALSE, v |-> [ID |-> ""]]
      [] OTHER             -> [err |-> TRUE,  v |-> [ID |-> ""]]

\* a field of a flat struct, by the Go type of the field
DecScalar(j, type) == IF type = "int" THEN DecInt(j) ELSE DecString(j)

\* a pointer to a struct whose modelled fields are the JSON keys of
\* `types` (key -> "string" | "int").  The pointer is a sequence: <<>> is
\* nil, <<s>> points to s; s maps each JSON key to the field's value.
DecStructPtr(j, types) ==
    CASE j.kind = "object" ->
            LET fs == [k \in DOMAIN types |-> DecScalar(Field(j, k), types[k])]
            IN  [err |-> \E k \in DOMAIN types : fs[k].err,
                 v |-> << [k \in DOMAIN types |-> fs[k].v] >>]
      [] j.kind = "null"   -> [err |-> FALSE, v |-> <<>>]
      [] OTHER             -> [err |-> TRUE,  v |-> <<>>]

\* the json tags of the event structs (their scalar fields)
MessageReceivedFields == ("mid" :> "string" @@ "seq" :> "int" @@ "text" :> "string"
                          @@ "sticker_id" :> "int")
MessageDeliveredFields == ("watermark" :> "int" @@ "seq" :> "int")
MessageReadFields == ("watermark" :> "int" @@ "seq" :> "int")
PostbackReceivedFields == ("payload" :> "string")
AccountLinkingFields == ("status" :> "string" @@ "authorization_code" :> "string")
OptInTappedFields == ("ref" :> "string")
ReferralUsedFields == ("type" :> "string" @@ "ref" :> "string" @@ "source" :> "string")


\* The nested values of the event structs (MessageReceived.Attachments and
\* .QuickReply, MessageDelivered.MessageIDs, PostbackReceived.Referral) are
\* decoded by the same rules and read by no operation of the package; they
\* are left out of the bodies the model generates.

\* type callback struct, as Unmarshal fills it.  Extra's tag is
\* `json:",inline"`: encoding/json reads the text before the comma as the
\* key (empty: the field's name, "Extra") and knows no option "inline", so
\* the field is filled from the JSON key "Extra" and from nothing else.
DecCallback(j) ==
    LET sender    == DecID(Field(j, "sender"))
        recipient == DecID(Field(j, "recipient"))
        timestamp == DecInt(Field(j, "timestamp"))
        message   == DecStructPtr(Field(j, "message"), MessageReceivedFields)
        delivery  == DecStructPtr(Field(j, "delivery"), MessageDeliveredFields)
        read      == DecStructPtr(Field(j, "read"), MessageReadFields)
        postback  == DecStructPtr(Field(j, "postback"), PostbackReceivedFields)
        linking   == DecStructPtr(Field(j, "account_linking"), AccountLinkingFields)
        optin     == DecStructPtr(Field(j, "optin"), OptInTappedFields)
        referral  == DecStructPtr(Field(j, "referral"), ReferralUsedFields)
        extra     == DecMap(Field(j, "Extra"))
    IN  [err |-> \/ sender.err \/ recipient.err \/ timestamp.err \/ message.err
                 \/ delivery.err \/ read.err \/ postback.err \/ linking.err
                 \/ optin.err \/ referral.err \/ extra.err,
         v |-> [Sender |-> sender.v, Recipient |-> recipient.v,
                Timestamp |-> timestamp.v, Message |-> message.v,
                Delivery |-> delivery.v, Read |-> read.v,
                Postback |-> postback.v, AccountLinking |-> linking.v,
                OptIn |-> optin.v, Referral |-> referral.v,
                Extra |-> extra.v]]

\* an element of Callbacks []*callback: null leaves the pointer nil
DecCallbackPtr(j) ==
    CASE j.kind = "object" ->
            LET cb == DecCallback(j) IN [err |-> cb.err, v |-> << cb.v >>]
      [] j.kind = "null"   -> [err |-> FALSE, v |-> <<>>]
      [] OTHER             -> [err |-> TRUE,  v |-> <<>>]

\* Callbacks []*callback `json:"messaging"`
DecCallbacks(j) ==
    CASE j.kind = "array" ->
            LET es == [k \in 1..Len(j.arr) |-> DecCallbackPtr(j.arr[k])]
            IN  [err |-> \E k \in 1..Len(j.arr) : es[k].err,
                 v |-> [k \in 1..Len(j.arr) |-> es[k].v]]
      [] j.kind = "null"  -> [err |-> FALSE, v |-> <<>>]
      [] OTHER            -> [err |-> TRUE,  v |-> <<>>]

\* an element of Pages: struct { ID; Timestamp; Callbacks } (not a pointer:
\* null leaves the zero struct)
DecPage(j) ==
    CASE j.kind = "object" ->
            LET id        == DecString(Field(j, "id"))
                time      == DecInt(Field(j, "time"))
                messaging == DecCallbacks(Field(j, "messaging"))
            IN  [err |-> id.err \/ time.err \/ messaging.err,
                 v |-> [ID |-> id.v, Timestamp |-> time.v, Callbacks |-> messaging.v]]
      [] j.kind = "null"   ->
            [err |-> FALSE, v |-> [ID |-> "", Timestamp |-> 0, Callbacks |-> <<>>]]
      [] OTHER             ->
            [err |-> TRUE,  v |-> [ID |-> "", Timestamp |-> 0, Callbacks |-> <<>>]]

\* Pages []struct{...} `json:"entry"`
DecPages(j) ==
    CASE j.kind = "array" ->
            LET es == [k \in 1..Len(j.arr) |-> DecPage(j.arr[k])]
            IN  [err |-> \E k \in 1..Len(j.arr) : es[k].err,
                 v |-> [k \in 1..Len(j.arr) |-> es[k].v]]
      [] j.kind = "null"  -> [err |-> FALSE, v |-> <<>>]
      [] OTHER            -> [err |-> TRUE,  v |-> <<>>]

\* Unmarshal reporting only a syntax error, and no value of the wrong kind
\* (the mutant of Unmarshal)
UnmarshalSyntaxOnly(body) ==
    IF ~body.syntax THEN [err |-> TRUE, v |-> <<>>]
    ELSE [err |-> FALSE, v |-> DecPages(Field(BodyJSON(body), "entry")).v]

\* json.Unmarshal(body, &cbs) for a body that was read: body.syntax is
\* FALSE when the bytes are not a JSON text.  v is cbs.Pages.
Unmarshal(body) ==
    IF ~body.syntax THEN [err |-> TRUE, v |-> <<>>]
    ELSE LET json == BodyJSON(body)
         IN  CASE json.kind = "object" ->
                      LET object == DecString(Field(json, "object"))
                          entry  == DecPages(Field(json, "entry"))
                      IN  [err |-> object.err \/ entry.err, v |-> entry.v]
                [] json.kind = "null"   -> [err |-> FALSE, v |-> <<>>]
                [] OTHER                -> [err |-> TRUE,  v |-> <<>>]

----------------------------------------------------------------------------
(* Events.  An event is [type, Metadata, fields]: type names the Go type   *)
(* of the value given to the listener, fields maps the names of its other  *)
(* fields (json tags for the decoded structs) to their values.             *)

\* the zero Metadata; also the Metadata slot of the two verification
\* events, which have none
NoMetadata == [PageID |-> "", SenderID |-> "", RecipientID |-> "", Timestamp |-> 0]

ErrVerifyTokenMismatch == "verify token mismatch"

\* the first statement of Event: the Metadata of the callback, with
\* Sender and Recipient exchanged (the mutant of NewMetadata)
NewMetadataSwapped(cb, pageID) ==
    [PageID |-> pageID, SenderID |-> cb.Recipient.ID,
     RecipientID |-> cb.Sender.ID, Timestamp |-> cb.Timestamp]

\* the first statement of Event: md := Metadata{...}
NewMetadata(cb, pageID) ==
    [PageID |-> pageID, SenderID |-> cb.Sender.ID,
     RecipientID |-> cb.Recipient.ID, Timestamp |-> cb.Timestamp]

\* Event with cb.OptIn tested before cb.AccountLinking (the mutant of Event)
EventOptInFirst(cb, pageID) ==
    LET md == NewMetadata(cb, pageID)
    IN  IF cb.Message # <<>> THEN
            [type |-> "MessageReceived", Metadata |-> md, fields |-> cb.Message[1]]
        ELSE IF cb.Delivery # <<>> THEN
            [type |-> "MessageDelivered", Metadata |-> md, fields |-> cb.Delivery[1]]
        ELSE IF cb.Read # <<>> THEN
            [type |-> "MessageRead", Metadata |-> md, fields |-> cb.Read[1]]
        ELSE IF cb.Postback # <<>> THEN
            [type |-> "PostbackReceived", Metadata |-> md, fields |-> cb.Postback[1]]
        ELSE IF cb.OptIn # <<>> THEN
            [type |-> "OptInTapped", Metadata |-> md, fields |-> cb.OptIn[1]]
        ELSE IF cb.AccountLinking # <<>> THEN
            IF cb.AccountLinking[1]["status"] = "linked" THEN
                [type |-> "AccountLinked", Metadata |-> md,
                 fields |-> ("authorization_code" :>
                                cb.AccountLinking[1]["authorization_code"])]
            ELSE
                [type |-> "AccountUnlinked", Metadata |-> md,
                 fields |-> ("authorization_code" :> "")]
        ELSE IF cb.Referral # <<>> THEN
            [type |-> "ReferralUsed", Metadata |-> md, fields |-> cb.Referral[1]]
        ELSE
            [type |-> "CallbackUnsupported", Metadata |-> md,
             fields |-> ("Extra" :> cb.Extra)]

\* func (cb *callback) Event(pageID string) Event, for a non-nil cb
Event(cb, pageID) ==
    LET md == NewMetadata(cb, pageID)
    IN  IF cb.Message # <<>> THEN
            [type |-> "MessageReceived", Metadata |-> md, fields |-> cb.Message[1]]
        ELSE IF cb.Delivery # <<>> THEN
            [type |-> "MessageDelivered", Metadata |-> md, fields |-> cb.Delivery[1]]
        ELSE IF cb.Read # <<>> THEN
            [type |-> "MessageRead", Metadata |-> md, fields |-> cb.Read[1]]
        ELSE IF cb.Postback # <<>> THEN
            [type |-> "PostbackReceived", Metadata |-> md, fields |-> cb.Postback[1]]
        ELSE IF cb.AccountLinking # <<>> THEN
            IF cb.AccountLinking[1]["status"] = "linked" THEN
                [type |-> "AccountLinked", Metadata |-> md,
                 fields |-> ("authorization_code" :>
                                cb.AccountLinking[1]["authorization_code"])]
            ELSE
                [type |-> "AccountUnlinked", Metadata |-> md,
                 fields |-> ("authorization_code" :> "")]
        ELSE IF cb.OptIn # <<>> THEN
            [type |-> "OptInTapped", Metadata |-> md, fields |-> cb.OptIn[1]]
        ELSE IF cb.Referral # <<>> THEN
            [type |-> "ReferralUsed", Metadata |-> md, fields |-> cb.Referral[1]]
        ELSE
            [type |-> "CallbackUnsupported", Metadata |-> md,
             fields |-> ("Extra" :> cb.Extra)]

----------------------------------------------------------------------------
(* The requests the model serves. *)

\* the token sets a Dispatcher is configured with: no VerifyToken option,
\* VerifyToken("good"), and VerifyToken("good") with VerifyToken("")
TokenSets == { {}, {"good"}, {"good", ""} }

\* the values of hub.verify_token a GET carries ("" also stands for an
\* absent parameter: url.Values.Get returns "" for it)
QueryTokens == {"good", "alt", ""}
Challenges == {"c1", ""}

KnownKeys == DOMAIN PayloadJSON
UnknownKeys == DOMAIN UnknownJSON
LinkingStatuses == {"linked", "unlinked", "other"}

\* timestamps of a callback: the time of its entry (see Heads) or another
CallbackTimes == {100, 300}

Callback(shape, known, linking, unknown, ts) ==
    [shape |-> shape, known |-> known, linking |-> linking, unknown |-> unknown,
     ts |-> ts]

\* callbacks with every combination of the known fields populated, with
\* every combination of account_linking and unknown keys, and with a null
\* or no envelope
RichCallbacks ==
    { Callback("object", S, l, {}, 100) : S \in SUBSET KnownKeys, l \in LinkingStatuses \cup {""} }
    \cup { Callback("object", {}, l, U, ts)
             : l \in LinkingStatuses \cup {""}, U \in SUBSET UnknownKeys,
               ts \in CallbackTimes }
    \cup { Callback("nullmessage", S, "", U, 300)
             : S \in {{}, {"postback"}}, U \in {{}, {"zip"}} }
    \cup { Callback("bare", {}, "", U, 0) : U \in {{}, {"foo"}} }

\* the callbacks of the bodies with several entries and callbacks: a
\* message, an unrecognized callback, a null, and a callback that does not
\* fit the Go type
CbMessage == Callback("object", {"message"}, "", {}, 100)
CbUnknown == Callback("object", {}, "", {"foo"}, 300)
CbNull == Callback("null", {}, "", {}, 0)
CbMistyped == Callback("mistyped", {}, "", {}, 100)
SmallCallbacks == {CbMessage, CbUnknown, CbNull, CbMistyped}

\* (id, time) of an entry
Heads == {<<"P1", 100>>, <<"P2", 200>>}

Entry(shape, head, messaging) ==
    [shape |-> shape, id |-> head[1], time |-> head[2], messaging |-> messaging]

\* the sequences of at most e entries holding at most n callbacks in all:
\* the empty one, and a first entry of k callbacks before such a sequence
\* of at most e - 1 entries and n - k callbacks
RECURSIVE EntrySeqs(_, _)
EntrySeqs(e, n) ==
    IF e = 0 THEN { <<>> }
    ELSE { <<>> } \cup
         UNION { { <<Entry("object", h, m)>> \o rest
                     : h \in Heads, m \in [1..k -> SmallCallbacks],
                       rest \in EntrySeqs(e - 1, n - k) }
                   : k \in 0..n }

Body(read, syntax, top, entries) ==
    [read |-> read, syntax |-> syntax, top |-> top, entries |-> entries]

\* the empty body: ReadAll succeeds, the bytes are no JSON text
EmptyBody == Body(TRUE, FALSE, "", <<>>)

\* bodies that are no envelope, or an envelope of another shape
OddBodies ==
    { Body(FALSE, FALSE, "", <<>>),      \* ReadAll fails
      EmptyBody,
      Body(TRUE, TRUE, "null", <<>>),
      Body(TRUE, TRUE, "string", <<>>),
      Body(TRUE, TRUE, "noentry", <<>>),
      Body(TRUE, TRUE, "mistyped", <<>>),
      Body(TRUE, TRUE, "envelope", <<Entry("null", <<"", 0>>, <<>>)>>),
      Body(TRUE, TRUE, "envelope", <<Entry("nomessaging", <<"P1", 100>>, <<>>)>>),
      Body(TRUE, TRUE, "envelope", <<Entry("mistyped", <<"P1", 100>>, <<CbMessage>>)>>),
      Body(TRUE, TRUE, "envelope",
           <<Entry("object", <<"P1", 100>>, <<CbMessage>>),
             Entry("null", <<"", 0>>, <<>>),
             Entry("object", <<"P2", 200>>, <<CbUnknown>>)>>) }

Bodies ==
    OddBodies
    \cup { Body(TRUE, TRUE, "envelope", es) : es \in EntrySeqs(MaxEntries, MaxCallbacks) }
    \cup { Body(TRUE, TRUE, "envelope", <<Entry("object", h, <<c>>)>>)
             : h \in Heads, c \in RichCallbacks }

NoRequest == [method |-> "", token |-> "", challenge |-> "", body |-> EmptyBody]

Requests ==
    { [method |-> "GET", token |-> t, challenge |-> c, body |-> EmptyBody]
        : t \in QueryTokens, c \in Challenges }
    \cup { [method |-> "POST", token |-> "", challenge |-> "", body |-> b] : b \in Bodies }
    \cup { [method |-> m, token |-> "good", challenge |-> "c1", body |-> EmptyBody]
             : m \in {"PUT", "DELETE"} }

----------------------------------------------------------------------------
(* The webhook handler. *)

StatusOK == 200
StatusBadRequest == 400
StatusForbidden == 403
StatusMethodNotAllowed == 405

\* the position of the next callback at or after (p, c): the two range
\* loops of handleCallbacks skip the pages that have no callback left
RECURSIVE NextCallback(_, _, _)
NextCallback(pages, p, c) ==
    IF p > Len(pages) THEN <<p, 1>>
    ELSE IF c > Len(pages[p].Callbacks) THEN NextCallback(pages, p + 1, 1)
    ELSE <<p, c>>

\* what a request leaves behind once the handler has returned
Idle ==
    /\ pc = "idle"
    /\ req = NoRequest
    /\ cbs = <<>>
    /\ pi = 1
    /\ ci = 1
    /\ events = <<>>
    /\ status = 0
    /\ respBody = ""
    /\ emittedAtWrite = 0

\* handleVerification taking an absent hub.verify_token for a match (the
\* mutant of handleVerification)
handleVerificationEmptyToken(r) ==
    /\ IF r.token # "" /\ r.token \notin verifyTokens
       THEN /\ events' = Append(events, [type |-> "VerificationFailed",
                                         Metadata |-> NoMetadata,
                                         fields |-> ("Token" :> r.token
                                                     @@ "Err" :> ErrVerifyTokenMismatch)])
            /\ status' = StatusForbidden
            /\ respBody' = ""
       ELSE /\ events' = Append(events, [type |-> "VerificationCompleted",
                                         Metadata |-> NoMetadata,
                                         fields |-> ("Challenge" :> r.challenge)])
            /\ status' = StatusOK
            /\ respBody' = r.challenge
    /\ emittedAtWrite' = Len(events')
    /\ pc' = "done"
    /\ UNCHANGED <<cbs, pi, ci>>

\* wh.handleVerification(w, r)
handleVerification(r) ==
    /\ IF r.token \notin verifyTokens
       THEN /\ events' = Append(events, [type |-> "VerificationFailed",
                                         Metadata |-> NoMetadata,
                                         fields |-> ("Token" :> r.token
                                                     @@ "Err" :> ErrVerifyTokenMismatch)])
            /\ status' = StatusForbidden
            /\ respBody' = ""
       ELSE /\ events' = Append(events, [type |-> "VerificationCompleted",
                                         Metadata |-> NoMetadata,
                                         fields |-> ("Challenge" :> r.challenge)])
            /\ status' = StatusOK
            /\ respBody' = r.challenge
    /\ emittedAtWrite' = Len(events')
    /\ pc' = "done"
    /\ UNCHANGED <<cbs, pi, ci>>

\* wh.handleCallbacks(w, r) up to the first range statement: ReadAll and
\* Unmarshal, and the 400 response when either fails
handleCallbacks(r) ==
    IF ~r.body.read \/ Unmarshal(r.body).err
    THEN /\ status' = StatusBadRequest
         /\ emittedAtWrite' = Len(events)
         /\ pc' = "done"
         /\ UNCHANGED <<cbs, pi, ci, events, respBody>>
    ELSE /\ cbs' = Unmarshal(r.body).v
         /\ pi' = NextCallback(cbs', 1, 1)[1]
         /\ ci' = NextCallback(cbs', 1, 1)[2]
         /\ pc' = "range"
         /\ UNCHANGED <<events, status, respBody, emittedAtWrite>>

\* the default case of the handler's switch
methodNotAllowed ==
    /\ status' = StatusMethodNotAllowed
    /\ emittedAtWrite' = Len(events)
    /\ pc' = "done"
    /\ UNCHANGED <<cbs, pi, ci, events, respBody>>

\* the handler with handleVerification as the default case of the switch
\* (the mutant of ServeHTTP)
ServeHTTPDefaultVerification(r) ==
    /\ pc = "idle"
    /\ req' = r
    /\ \/ r.method = "POST" /\ handleCallbacks(r)
       \/ r.method # "POST" /\ handleVerification(r)
    /\ UNCHANGED verifyTokens
    /\ UNCHANGED svars
    /\ UNCHANGED cvars
    /\ UNCHANGED rvars

\* the http.HandlerFunc WebhookHandler returns: switch r.Method
ServeHTTP(r) ==
    /\ pc = "idle"
    /\ req' = r
    /\ \/ r.method = "GET" /\ handleVerification(r)
       \/ r.method = "POST" /\ handleCallbacks(r)
       \/ r.method \notin {"GET", "POST"} /\ methodNotAllowed
    /\ UNCHANGED verifyTokens
    /\ UNCHANGED svars
    /\ UNCHANGED cvars
    /\ UNCHANGED rvars

\* one iteration of the inner range loop with a non-nil cb:
\* wh.emitEvent(cb.Event(page.ID))
EmitEvent ==
    /\ pc = "range"
    /\ pi <= Len(cbs)
    /\ cbs[pi].Callbacks[ci] # <<>>
    /\ events' = Append(events, Event(cbs[pi].Callbacks[ci][1], cbs[pi].ID))
    /\ pi' = NextCallback(cbs, pi, ci + 1)[1]
    /\ ci' = NextCallback(cbs, pi, ci + 1)[2]
    /\ UNCHANGED <<verifyTokens, pc, req, cbs, status, respBody, emittedAtWrite>>
    /\ UNCHANGED svars
    /\ UNCHANGED cvars
    /\ UNCHANGED rvars

\* one iteration of the inner range loop with a nil cb (a null element of
\* "messaging"): cb.Event reads cb.Sender.ID through the nil pointer and
\* panics; the handler is left without a status written
NilCallback ==
    /\ pc = "range"
    /\ pi <= Len(cbs)
    /\ cbs[pi].Callbacks[ci] = <<>>
    /\ pc' = "panic"
    /\ UNCHANGED <<verifyTokens, req, cbs, pi, ci, events, status, respBody,
                   emittedAtWrite>>
    /\ UNCHANGED svars
    /\ UNCHANGED cvars
    /\ UNCHANGED rvars

\* after the loops: w.WriteHeader(http.StatusOK)
WriteOK ==
    /\ pc = "range"
    /\ pi > Len(cbs)
    /\ status' = StatusOK
    /\ emittedAtWrite' = Len(events)
    /\ pc' = "done"
    /\ UNCHANGED <<verifyTokens, req, cbs, pi, ci, events, respBody>>
    /\ UNCHANGED svars
    /\ UNCHANGED cvars
    /\ UNCHANGED rvars

\* the handler has returned (or panicked): the server is ready for the
\* next request; nothing of the request is kept
Return ==
    /\ pc \in {"done", "panic"}
    /\ pc' = "idle"
    /\ req' = NoRequest
    /\ cbs' = <<>>
    /\ pi' = 1
    /\ ci' = 1
    /\ events' = <<>>
    /\ status' = 0
    /\ respBody' = ""
    /\ emittedAtWrite' = 0
    /\ UNCHANGED verifyTokens
    /\ UNCHANGED svars
    /\ UNCHANGED cvars
    /\ UNCHANGED rvars

----------------------------------------------------------------------------
(* The Sender. *)

\* Go error values: [nil, type, Message, Type, Code, ErrorSubcode,
\* FBTraceID]; type is the dynamic type of a non-nil error, and the last
\* five fields are those of *fbError
NilError ==
    [nil |-> TRUE, type |-> "", Message |-> "", Type |-> "", Code |-> 0,
     ErrorSubcode |-> 0, FBTraceID |-> ""]
FbError(message, type, code, subcode, trace) ==
    [nil |-> FALSE, type |-> "*fbError", Message |-> message, Type |-> type,
     Code |-> code, ErrorSubcode |-> subcode, FBTraceID |-> trace]
OtherError(type, message) ==
    [nil |-> FALSE, type |-> type, Message |-> message, Type |-> "", Code |-> 0,
     ErrorSubcode |-> 0, FBTraceID |-> ""]

\* err.Error() of the failures the model produces
ReadAllFailure == "unexpected EOF"
UnmarshalFailure == "json: cannot unmarshal"
TransportFailure == "dial tcp: connection refused"

\* json.Unmarshal(slurp, &errResp) for the inner fbError struct
DecFbError(j) ==
    CASE j.kind = "object" ->
            [err |-> \/ DecString(Field(j, "message")).err
                     \/ DecString(Field(j, "type")).err
                     \/ DecInt(Field(j, "code")).err
                     \/ DecInt(Field(j, "error_subcode")).err
                     \/ DecString(Field(j, "fbtrace_id")).err,
             v |-> FbError(DecString(Field(j, "message")).v,
                           DecString(Field(j, "type")).v,
                           DecInt(Field(j, "code")).v,
                           DecInt(Field(j, "error_subcode")).v,
                           DecString(Field(j, "fbtrace_id")).v)]
      [] j.kind = "null"   -> [err |-> FALSE, v |-> FbError("", "", 0, 0, "")]
      [] OTHER             -> [err |-> TRUE,  v |-> FbError("", "", 0, 0, "")]

\* json.Unmarshal(slurp, &errResp): struct { Error fbError `json:"error"` }
DecErrResp(body) ==
    IF ~body.syntax THEN [err |-> TRUE, v |-> FbError("", "", 0, 0, "")]
    ELSE CASE body.json.kind = "object" -> DecFbError(Field(body.json, "error"))
           [] body.json.kind = "null"   -> [err |-> FALSE, v |-> FbError("", "", 0, 0, "")]
           [] OTHER                     -> [err |-> TRUE, v |-> FbError("", "", 0, 0, "")]

\* the mutant of checkResponse that tests only the upper end of the range
checkResponseNoLowerBound(resp) ==
    IF resp.StatusCode <= 299 THEN NilError
    ELSE IF ~resp.Body.read THEN FbError(ReadAllFailure, "", resp.StatusCode, 0, "")
    ELSE IF DecErrResp(resp.Body).err
         THEN FbError(UnmarshalFailure, "", resp.StatusCode, 0, "")
    ELSE DecErrResp(resp.Body).v

\* func (s *Sender) checkResponse(resp *http.Response) error
checkResponse(resp) ==
    IF resp.StatusCode >= 200 /\ resp.StatusCode <= 299 THEN NilError
    ELSE IF ~resp.Body.read THEN FbError(ReadAllFailure, "", resp.StatusCode, 0, "")
    ELSE IF DecErrResp(resp.Body).err
         THEN FbError(UnmarshalFailure, "", resp.StatusCode, 0, "")
    ELSE DecErrResp(resp.Body).v

\* type MessageResponse struct; the zero value
NoMessageResponse == [RecipientID |-> "", MessageID |-> "", AttachmentID |-> ""]

\* json.NewDecoder(resp.Body).Decode(dst) with dst a *MessageResponse
DecodeMessageResponse(body) ==
    IF ~body.read THEN [err |-> OtherError("read", ReadAllFailure), v |-> NoMessageResponse]
    ELSE IF ~body.syntax
         THEN [err |-> OtherError("*json.SyntaxError", UnmarshalFailure),
               v |-> NoMessageResponse]
    ELSE CASE body.json.kind = "object" ->
                 [err |-> IF \/ DecString(Field(body.json, "recipient_id")).err
                             \/ DecString(Field(body.json, "message_id")).err
                             \/ DecString(Field(body.json, "attachment_id")).err
                          THEN OtherError("*json.UnmarshalTypeError", UnmarshalFailure)
                          ELSE NilError,
                  v |-> [RecipientID |-> DecString(Field(body.json, "recipient_id")).v,
                         MessageID |-> DecString(Field(body.json, "message_id")).v,
                         AttachmentID |-> DecString(Field(body.json, "attachment_id")).v]]
           [] body.json.kind = "null" -> [err |-> NilError, v |-> NoMessageResponse]
           [] OTHER -> [err |-> OtherError("*json.UnmarshalTypeError", UnmarshalFailure),
                        v |-> NoMessageResponse]

\* func (s *Sender) send(src, dst) error, from the return of s.client.Do.
\* t is what Do returned: [err, resp]; hasDst is dst != nil.  The result is
\* [err, dst]: the error returned and the value decoded into dst.
send(t, hasDst) ==
    IF t.err THEN [err |-> OtherError("*url.Error", TransportFailure), dst |-> NoMessageResponse]
    ELSE IF ~checkResponse(t.resp).nil
         THEN [err |-> checkResponse(t.resp), dst |-> NoMessageResponse]
    ELSE IF ~hasDst THEN [err |-> NilError, dst |-> NoMessageResponse]
    ELSE [err |-> DecodeMessageResponse(t.resp.Body).err,
          dst |-> DecodeMessageResponse(t.resp.Body).v]

\* what SendMessage returns: (*MessageResponse, error); the pointer is a
\* sequence, <<>> for nil
SendMessageResult(t) ==
    IF ~send(t, TRUE).err.nil THEN [resp |-> <<>>, err |-> send(t, TRUE).err]
    ELSE [resp |-> << send(t, TRUE).dst >>, err |-> NilError]

\* what SendAction returns: error
SendActionResult(t) == [resp |-> <<>>, err |-> send(t, FALSE).err]

\* the responses of the platform the model draws from
ResponseStatuses == {101, 200, 299, 300, 400, 500}

ErrorJSON(code) ==
    JObj("message" :> JStr("Invalid OAuth access token.") @@ "type" :> JStr("OAuthException")
         @@ "code" :> code @@ "error_subcode" :> JNum(1234567)
         @@ "fbtrace_id" :> JStr("BLBz/WZt8dN"))

\* a response body: [read, syntax, json]; read is FALSE when reading it
\* fails, syntax is FALSE when its bytes are not a JSON text, json is the
\* JSON value they spell
JSONBody(j) == [read |-> TRUE, syntax |-> TRUE, json |-> j]
NoBody == [read |-> TRUE, syntax |-> FALSE, json |-> JNull]

ResponseBodies ==
    { [read |-> FALSE, syntax |-> FALSE, json |-> JNull],   \* the read fails
      NoBody,                                               \* not JSON
      JSONBody(JNull),
      JSONBody(JObj(<<>>)),
      JSONBody(JStr("Bad Gateway")),
      JSONBody(JObj("error" :> ErrorJSON(JNum(190)))),
      JSONBody(JObj("error" :> ErrorJSON(JStr("190")))),    \* code is a string
      JSONBody(JObj("error" :> JObj("message" :> JStr("(#100) No matching user found")
                                    @@ "code" :> JNum(100)))),
      JSONBody(JObj("recipient_id" :> JStr("U1") @@ "message_id" :> JStr("mid.1"))),
      JSONBody(JObj("recipient_id" :> JNum(1))) }

NoTransport ==
    [err |-> FALSE, resp |-> [StatusCode |-> 0, Body |-> NoBody]]

Transports ==
    { [err |-> TRUE, resp |-> [StatusCode |-> 0, Body |-> NoBody]] }
    \cup { [err |-> FALSE, resp |-> [StatusCode |-> c, Body |-> b]]
             : c \in ResponseStatuses, b \in ResponseBodies }

----------------------------------------------------------------------------
(* Construction of a Sender.  A *url.URL is an address into urls; a        *)
(* url.URL value is [Scheme, Host, Path, RawQuery], and the text of        *)
(* RawQuery, "k=v&k=v", is the sequence of its <<k, v>> pairs.             *)

\* most Senders constructed in one run
MaxSenders == 2

\* the access tokens and the *http.Client values callers construct with
AccessTokens == {"T1", "T2"}
DefaultClient == "http.DefaultClient"
CallerClient == "callerClient"

\* the address of the package variable defaultMessengerEndpoint
defaultMessengerEndpoint == 1

\* the memory before any Sender is constructed: the default endpoint and
\* two URLs callers made for the Endpoint option
InitURLs ==
    << [Scheme |-> "https", Host |-> "graph.facebook.com", Path |-> "/v2.6/me/messages",
        RawQuery |-> <<>>],
       [Scheme |-> "https", Host |-> "proxy.example", Path |-> "/send",
        RawQuery |-> << <<"v", "1">>, <<"access_token", "old">>, <<"access_token", "older">> >>],
       [Scheme |-> "http", Host |-> "localhost:8080", Path |-> "/",
        RawQuery |-> << <<"fields", "id">> >>] >>
CallerURLs == {2, 3}

\* the keys of the model's query strings in ascending order, the order
\* url.Values.Encode writes them in
QueryKeys == <<"access_token", "fields", "v">>

\* u.Query(): url.Values, each key with its values in order of appearance
RECURSIVE ParseQuery(_)
ParseQuery(raw) ==
    IF raw = <<>> THEN <<>>
    ELSE IF raw[Len(raw)][1] \in DOMAIN ParseQuery(SubSeq(raw, 1, Len(raw) - 1))
         THEN [ParseQuery(SubSeq(raw, 1, Len(raw) - 1))
                  EXCEPT ![raw[Len(raw)][1]] = Append(@, raw[Len(raw)][2])]
         ELSE ParseQuery(SubSeq(raw, 1, Len(raw) - 1))
                  @@ (raw[Len(raw)][1] :> << raw[Len(raw)][2] >>)
Query(u) == ParseQuery(u.RawQuery)

\* qs.Set(key, value): the key is left with that one value
Set(qs, key, value) == (key :> <<value>>) @@ qs

\* qs.Encode(): the pairs sorted by key, the values of a key in their order
RECURSIVE EncodeFrom(_, _)
EncodeFrom(qs, k) ==
    IF k > Len(QueryKeys) THEN <<>>
    ELSE (IF QueryKeys[k] \in DOMAIN qs
          THEN [n \in 1..Len(qs[QueryKeys[k]]) |-> <<QueryKeys[k], qs[QueryKeys[k]][n]>>]
          ELSE <<>>)
         \o EncodeFrom(qs, k + 1)
Encode(qs) == EncodeFrom(qs, 1)

\* a SenderOption: HTTPClient(client) or Endpoint(u); a nil client is "",
\* a nil u is 0
HTTPClient(client) == [option |-> "HTTPClient", client |-> client, u |-> 0]
Endpoint(u) == [option |-> "Endpoint", client |-> "", u |-> u]

\* the for loop of NewSender: every option applied to s in order
RECURSIVE ApplyOptions(_, _)
ApplyOptions(s, opts) ==
    IF opts = <<>> THEN s
    ELSE ApplyOptions(IF opts[1].option = "HTTPClient"
                      THEN [s EXCEPT !.client = opts[1].client]
                      ELSE [s EXCEPT !.endpoint = opts[1].u],
                      Tail(opts))

\* s after the options and the defaults of NewSender, before the copy
Configured(accessToken, opts) ==
    [ApplyOptions([accessToken |-> accessToken, client |-> "", endpoint |-> 0], opts)
        EXCEPT !.client = IF @ = "" THEN DefaultClient ELSE @,
               !.endpoint = IF @ = 0 THEN defaultMessengerEndpoint ELSE @]

\* the url.URL value NewSender builds: endpoint := *s.endpoint, then
\* endpoint.RawQuery = qs.Encode() with access_token set in qs
WithAccessToken(u, accessToken) ==
    [u EXCEPT !.RawQuery = Encode(Set(Query(u), "access_token", accessToken))]

\* NewSender writing the query through s.endpoint, without the copy (the
\* mutant of NewSender)
NewSenderInPlace(accessToken, opts) ==
    /\ Len(senders) < MaxSenders
    /\ urls' = [urls EXCEPT ![Configured(accessToken, opts).endpoint] =
                                WithAccessToken(@, accessToken)]
    /\ senders' = Append(senders, Configured(accessToken, opts))
    /\ UNCHANGED wvars
    /\ UNCHANGED svars
    /\ UNCHANGED rvars

\* func NewSender(accessToken string, opts ...SenderOption) (*Sender, error):
\* the copy is a new url.URL value, and s.endpoint is its address
NewSender(accessToken, opts) ==
    /\ Len(senders) < MaxSenders
    /\ urls' = Append(urls, WithAccessToken(urls[Configured(accessToken, opts).endpoint],
                                            accessToken))
    /\ senders' = Append(senders, [Configured(accessToken, opts)
                                      EXCEPT !.endpoint = Len(urls) + 1])
    /\ UNCHANGED wvars
    /\ UNCHANGED svars
    /\ UNCHANGED rvars

\* the option lists callers construct with
OptionLists ==
    { <<>>,
      <<Endpoint(2)>>,
      <<HTTPClient(CallerClient), Endpoint(3)>>,
      <<Endpoint(2), HTTPClient(""), Endpoint(0)>> }

\* no Sender constructed yet
NoSender ==
    /\ urls = InitURLs
    /\ senders = <<>>

\* the *http.Request of send: http.NewRequest("POST", s.endpoint.String(),
\* body), given to s.client.Do
NoCall == [sender |-> 0, Method |-> "", URL |-> InitURLs[1], client |-> ""]
NewRequest(i) ==
    [sender |-> i, Method |-> "POST", URL |-> urls[senders[i].endpoint],
     client |-> senders[i].client]

NoResult == [resp |-> <<>>, err |-> NilError]

NoObject == [variant |-> ""]

SenderIdle ==
    /\ spc = "idle"
    /\ sop = ""
    /\ ctx = "active"
    /\ ctxAtResponse = "active"
    /\ transport = NoTransport
    /\ result = NoResult
    /\ call = NoCall

\* SendMessage(ctx, msg) / SendAction(ctx, to, action) up to s.client.Do:
\* the message is rendered, marshalled and put into an *http.Request made
\* by http.NewRequest, which is given no context.  c is the state of the
\* caller's context at the call, and the Sender is any one constructed.
Call(op, c) ==
    /\ spc = "idle"
    /\ sop' = op
    /\ ctx' = c
    /\ \E i \in 1..Len(senders) : call' = NewRequest(i)
    /\ spc' = "do"
    /\ UNCHANGED <<ctxAtResponse, transport, result>>
    /\ UNCHANGED wvars
    /\ UNCHANGED cvars
    /\ UNCHANGED rvars

\* the caller cancels the context, or its deadline passes, while
\* s.client.Do is waiting for the response
CtxDone(c) ==
    /\ spc = "do"
    /\ ctx = "active"
    /\ ctx' = c
    /\ UNCHANGED <<spc, sop, ctxAtResponse, transport, result, call>>
    /\ UNCHANGED wvars
    /\ UNCHANGED cvars
    /\ UNCHANGED rvars

\* s.client.Do(call) returns t, and the operation runs to its return.  The
\* request carries no context, so Do returns what the transport gives
\* whatever the state of ctx.
DoReturns(t) ==
    /\ spc = "do"
    /\ transport' = t
    /\ ctxAtResponse' = ctx
    /\ result' = IF sop = "SendMessage" THEN SendMessageResult(t) ELSE SendActionResult(t)
    /\ spc' = "done"
    /\ UNCHANGED <<sop, ctx, call>>
    /\ UNCHANGED wvars
    /\ UNCHANGED cvars
    /\ UNCHANGED rvars

\* the caller has the result; the Sender is ready for the next operation
SenderReturn ==
    /\ spc = "done"
    /\ spc' = "idle"
    /\ sop' = ""
    /\ ctx' = "active"
    /\ ctxAtResponse' = "active"
    /\ transport' = NoTransport
    /\ result' = NoResult
    /\ call' = NoCall
    /\ UNCHANGED wvars
    /\ UNCHANGED cvars
    /\ UNCHANGED rvars

----------------------------------------------------------------------------
(* The object model.  An Object is a record [variant, fields of the Go     *)
(* type]; a field of an interface type (Recipient, Attachment, Button) is  *)
(* <<>> when nil and <<the Object>> otherwise.  The value Source returns   *)
(* is kept as a tree of the JSON kinds, a map[string]interface{} being an  *)
(* object; a nil []interface{} is NilSlice, which json.Marshal writes as   *)
(* null.  No Source of the package returns a non-nil error.                *)

\* longest list (QuickReplies, Buttons, Elements) of a generated Object
MaxList == 2

JBool(b) ==
    [kind |-> IF b THEN "true" ELSE "false", str |-> "", num |-> 0, obj |-> NoObj,
     arr |-> <<>>]
NilSlice == [kind |-> "nil slice", str |-> "", num |-> 0, obj |-> NoObj, arr |-> <<>>]

\* if field # "" { src[key] = field }
IfSet(key, field) == IF field # "" THEN (key :> JStr(field)) ELSE <<>>

RECURSIVE Source(_)

\* var srcs []interface{}; for _, o := range list { srcs = append(srcs,
\* o.Source()) }: nil when the list has no element
Sources(list) ==
    IF list = <<>> THEN NilSlice
    ELSE JArr([k \in 1..Len(list) |-> Source(list[k])])

\* func (u User) Source()
UserSource(u) == JObj("id" :> JStr(u.id))

\* func (n PhoneNumber) Source()
PhoneNumberSource(n) == JObj("phone_number" :> JStr(n.number))

\* func (qr *QuickReply) Source()
QuickReplySource(qr) ==
    JObj(   IfSet("title", qr.Title)
         @@ IfSet("image_url", qr.ImageURL)
         @@ IfSet("payload", qr.Payload)
         @@ ("content_type" :> JStr(IF qr.AskForLocation THEN "location" ELSE "text")) )

\* Message.Source rendering the attachment whether or not there is a text
\* (the mutant of MessageSource)
MessageSourceAttachmentToo(m) ==
    JObj(   ("recipient" :> Source(m.To[1]))
         @@ ("message" :> JObj(   IfSet("text", m.Text)
                               @@ (IF m.Text # "" /\ Len(m.QuickReplies) > 0
                                   THEN ("quick_replies" :> Sources(m.QuickReplies))
                                   ELSE <<>>)
                               @@ (IF m.Attachment # <<>>
                                   THEN ("attachment" :> Source(m.Attachment[1]))
                                   ELSE <<>>)
                               @@ IfSet("metadata", m.Metadata) ))
         @@ IfSet("notification_type", m.NotificationType) )

\* func (m *Message) Source()
MessageSource(m) ==
    JObj(   ("recipient" :> Source(m.To[1]))
         @@ ("message" :> JObj(   IfSet("text", m.Text)
                               @@ (IF m.Text # "" /\ Len(m.QuickReplies) > 0
                                   THEN ("quick_replies" :> Sources(m.QuickReplies))
                                   ELSE <<>>)
                               @@ (IF m.Text = "" /\ m.Attachment # <<>>
                                   THEN ("attachment" :> Source(m.Attachment[1]))
                                   ELSE <<>>)
                               @@ IfSet("metadata", m.Metadata) ))
         @@ IfSet("notification_type", m.NotificationType) )

\* func (a *MultimediaAttachment) Source()
MultimediaAttachmentSource(a) ==
    JObj(   ("type" :> JStr(a.Type))
         @@ ("payload" :> JObj(IF a.AttachmentID # ""
                               THEN ("attachment_id" :> JStr(a.AttachmentID))
                               ELSE    ("url" :> JStr(a.URL))
                                    @@ (IF a.Reusable THEN ("is_reusable" :> JBool(TRUE))
                                        ELSE <<>>))) )

\* func (t *ButtonTemplate) Source()
ButtonTemplateSource(t) ==
    JObj(   ("type" :> JStr("template"))
         @@ ("payload" :> JObj(   ("template_type" :> JStr("button"))
                               @@ ("text" :> JStr(t.Text))
                               @@ ("buttons" :> Sources(t.Buttons)) )) )

\* func (t *GenericTemplate) Source()
GenericTemplateSource(t) ==
    JObj(   ("type" :> JStr("template"))
         @@ ("payload" :> JObj(   ("template_type" :> JStr("generic"))
                               @@ ("elements" :> Sources(t.Elements)) )) )

\* func (t *ListTemplate) Source()
ListTemplateSource(t) ==
    JObj(   ("type" :> JStr("template"))
         @@ ("payload" :> JObj(   ("template_type" :> JStr("list"))
                               @@ IfSet("top_element_style", t.TopElementStyle)
                               @@ ("elements" :> Sources(t.Elements))
                               @@ (IF Len(t.Buttons) > 0
                                   THEN ("buttons" :> Sources(t.Buttons))
                                   ELSE <<>>) )) )

\* func (e *Element) Source()
ElementSource(e) ==
    JObj(   ("title" :> JStr(e.Title))
         @@ IfSet("subtitle", e.Subtitle)
         @@ IfSet("item_url", e.ItemURL)
         @@ IfSet("image_url", e.ImageURL)
         @@ (IF Len(e.Buttons) > 0 THEN ("buttons" :> Sources(e.Buttons)) ELSE <<>>)
         @@ (IF e.DefaultAction # <<>>
             THEN ("default_action" :> Source(e.DefaultAction[1]))
             ELSE <<>>) )

\* func (b *URLButton) Source()
URLButtonSource(b) ==
    JObj(   ("type" :> JStr("web_url"))
         @@ ("title" :> JStr(b.Title))
         @@ ("url" :> JStr(b.URL))
         @@ IfSet("webview_height_ratio", b.WebviewHeightRatio)
         @@ (IF b.MessengerExtensions
             THEN ("messenger_extensions" :> JBool(b.MessengerExtensions))
             ELSE <<>>)
         @@ IfSet("fallback_url", b.FallbackURL) )

\* func (b *PostbackButton) Source()
PostbackButtonSource(b) ==
    JObj(   ("type" :> JStr("postback"))
         @@ ("title" :> JStr(b.Title))
         @@ ("payload" :> JStr(b.Payload)) )

\* func (b *CallButton) Source()
CallButtonSource(b) ==
    JObj(   ("type" :> JStr("phone_number"))
         @@ ("title" :> JStr(b.Title))
         @@ ("payload" :> JStr(b.PhoneNumber)) )

\* func (b *ShareButton) Source()
ShareButtonSource(b) == JObj("type" :> JStr("element_share"))

\* func (b *AccountLinkButton) Source()
AccountLinkButtonSource(b) ==
    JObj(("type" :> JStr("account_link")) @@ ("url" :> JStr(b.URL)))

\* func (b *AccountUnlinkButton) Source()
AccountUnlinkButtonSource(b) == JObj("type" :> JStr("account_unlink"))

\* o.Source() through the Object interface: the method of o's dynamic type
Source(o) ==
    CASE o.variant = "User" -> UserSource(o)
      [] o.variant = "PhoneNumber" -> PhoneNumberSource(o)
      [] o.variant = "Message" -> MessageSource(o)
      [] o.variant = "QuickReply" -> QuickReplySource(o)
      [] o.variant = "MultimediaAttachment" -> MultimediaAttachmentSource(o)
      [] o.variant = "ButtonTemplate" -> ButtonTemplateSource(o)
      [] o.variant = "GenericTemplate" -> GenericTemplateSource(o)
      [] o.variant = "ListTemplate" -> ListTemplateSource(o)
      [] o.variant = "Element" -> ElementSource(o)
      [] o.variant = "URLButton" -> URLButtonSource(o)
      [] o.variant = "PostbackButton" -> PostbackButtonSource(o)
      [] o.variant = "CallButton" -> CallButtonSource(o)
      [] o.variant = "ShareButton" -> ShareButtonSource(o)
      [] o.variant = "AccountLinkButton" -> AccountLinkButtonSource(o)
      [] o.variant = "AccountUnlinkButton" -> AccountUnlinkButtonSource(o)

\* json.Marshal(src) in send: the JSON value written for a tree
RECURSIVE Marshal(_)
Marshal(v) ==
    CASE v.kind = "nil slice" -> JNull
      [] v.kind = "object" -> JObj([k \in DOMAIN v.obj |-> Marshal(v.obj[k])])
      [] v.kind = "array" -> JArr([k \in 1..Len(v.arr) |-> Marshal(v.arr[k])])
      [] OTHER -> v

----------------------------------------------------------------------------
(* The Objects callers build. *)

User(id) == [variant |-> "User", id |-> id]
PhoneNumber(number) == [variant |-> "PhoneNumber", number |-> number]
QuickReply(title, imageURL, payload, askForLocation) ==
    [variant |-> "QuickReply", Title |-> title, ImageURL |-> imageURL,
     Payload |-> payload, AskForLocation |-> askForLocation]
MultimediaAttachment(type, url, attachmentID, reusable) ==
    [variant |-> "MultimediaAttachment", Type |-> type, URL |-> url,
     AttachmentID |-> attachmentID, Reusable |-> reusable]
ButtonTemplate(text, buttons) ==
    [variant |-> "ButtonTemplate", Text |-> text, Buttons |-> buttons]
GenericTemplate(elements) == [variant |-> "GenericTemplate", Elements |-> elements]
ListTemplate(elements, topElementStyle, buttons) ==
    [variant |-> "ListTemplate", Elements |-> elements,
     TopElementStyle |-> topElementStyle, Buttons |-> buttons]
Element(title, subtitle, itemURL, imageURL, buttons, defaultAction) ==
    [variant |-> "Element", Title |-> title, Subtitle |-> subtitle, ItemURL |-> itemURL,
     ImageURL |-> imageURL, Buttons |-> buttons, DefaultAction |-> defaultAction]
URLButton(title, url, webviewHeightRatio, messengerExtensions, fallbackURL) ==
    [variant |-> "URLButton", Title |-> title, URL |-> url,
     WebviewHeightRatio |-> webviewHeightRatio,
     MessengerExtensions |-> messengerExtensions, FallbackURL |-> fallbackURL]
PostbackButton(title, payload) ==
    [variant |-> "PostbackButton", Title |-> title, Payload |-> payload]
CallButton(title, phoneNumber) ==
    [variant |-> "CallButton", Title |-> title, PhoneNumber |-> phoneNumber]
ShareButton == [variant |-> "ShareButton"]
AccountLinkButton(url) == [variant |-> "AccountLinkButton", URL |-> url]
AccountUnlinkButton == [variant |-> "AccountUnlinkButton"]
Message(to, text, attachment, quickReplies, metadata, notificationType) ==
    [variant |-> "Message", To |-> to, Text |-> text, Attachment |-> attachment,
     QuickReplies |-> quickReplies, Metadata |-> metadata,
     NotificationType |-> notificationType]

\* the lists of at most MaxList elements of set
Lists(set) == UNION { [1..n -> set] : n \in 0..MaxList }

Buttons ==
    { URLButton("Open", "https://e.example", "", FALSE, ""),
      URLButton("Open", "https://e.example", "compact", TRUE, "https://f.example"),
      URLButton("", "", "", FALSE, ""),
      PostbackButton("Buy", "BUY"),
      PostbackButton("", ""),
      CallButton("Call", "+15550100"),
      CallButton("", ""),
      ShareButton,
      AccountLinkButton("https://l.example"),
      AccountLinkButton(""),
      AccountUnlinkButton }

ButtonLists ==
    Lists({ URLButton("Open", "https://e.example", "", FALSE, ""),
            PostbackButton("Buy", "BUY"),
            ShareButton })

Elements ==
    { Element(title, rest[1], rest[2], rest[3], buttons, defaultAction) :
        title \in {"", "Shirt"},
        rest \in { <<"", "", "">>, <<"Soft", "", "">>,
                   <<"Soft", "https://i.example", "https://p.example/1.png">> },
        buttons \in ButtonLists,
        defaultAction \in { <<>>, << URLButton("", "https://e.example", "tail", FALSE, "") >> } }

ElementLists ==
    Lists({ Element("Shirt", "", "", "", <<>>, <<>>),
            Element("Hat", "Warm", "", "", <<PostbackButton("Buy", "BUY")>>, <<>>) })

Attachments ==
    { MultimediaAttachment(type, url, attachmentID, reusable) :
        type \in {"image", ""}, url \in {"", "https://p.example/1.png"},
        attachmentID \in {"", "a1"}, reusable \in BOOLEAN }
    \cup { ButtonTemplate(text, buttons) : text \in {"", "Pick"}, buttons \in ButtonLists }
    \cup { GenericTemplate(elements) : elements \in ElementLists }
    \cup { ListTemplate(elements, style, buttons) :
             elements \in ElementLists, style \in {"", "compact"}, buttons \in ButtonLists }

QuickReplies ==
    { QuickReply(title, imageURL, payload, askForLocation) :
        title \in {"", "Red"}, imageURL \in {"", "https://p.example/r.png"},
        payload \in {"", "RED"}, askForLocation \in BOOLEAN }

QuickReplyLists ==
    Lists({ QuickReply("Red", "", "RED", FALSE), QuickReply("", "", "", TRUE) })

Messages ==
    { Message(<<to>>, text, attachment, quickReplies, metadata, notificationType) :
        to \in { User("U1"), PhoneNumber("+15550100") },
        text \in {"", "hi"},
        attachment \in { <<>>,
                         << MultimediaAttachment("image", "https://p.example/1.png", "", TRUE) >>,
                         << ButtonTemplate("Pick", <<ShareButton>>) >>,
                         << GenericTemplate(<<>>) >> },
        quickReplies \in QuickReplyLists,
        metadata \in {"", "md"},
        notificationType \in {"", "SILENT_PUSH"} }

Objects == Messages \cup QuickReplies \cup Attachments \cup Elements \cup Buttons

\* o.Source() is called: the tree it returns is kept
CallSource ==
    /\ rendering # NoObject
    /\ source = <<>>
    /\ source' = << Source(rendering) >>
    /\ UNCHANGED rendering
    /\ UNCHANGED wvars
    /\ UNCHANGED svars
    /\ UNCHANGED cvars

----------------------------------------------------------------------------
(* Specifications. *)

\* WebhookHandler(l, opts...): the options are applied once, before the
\* handler is returned
WebhookInit ==
    /\ verifyTokens \in TokenSets
    /\ Idle

\* no Object is being rendered
NoRender ==
    /\ rendering = NoObject
    /\ source = <<>>

\* the webhook handler serving requests, one after another
Init == WebhookInit /\ SenderIdle /\ NoSender /\ NoRender

Next ==
    \/ \E r \in Requests : ServeHTTP(r)
    \/ EmitEvent
    \/ NilCallback
    \/ WriteOK
    \/ Return

Spec == Init /\ [][Next]_vars

\* a Sender running SendMessage and SendAction, one after another
SenderInit ==
    /\ verifyTokens = {}
    /\ Idle
    /\ SenderIdle
    /\ urls = Append(InitURLs, WithAccessToken(InitURLs[defaultMessengerEndpoint], "T1"))
    /\ senders = << [Configured("T1", <<>>) EXCEPT !.endpoint = Len(InitURLs) + 1] >>
    /\ NoRender

SenderNext ==
    \/ \E op \in {"SendMessage", "SendAction"}, c \in {"active", "canceled", "deadline exceeded"} :
          Call(op, c)
    \/ \E c \in {"canceled", "deadline exceeded"} : CtxDone(c)
    \/ \E t \in Transports : DoReturns(t)
    \/ SenderReturn

SenderSpec == SenderInit /\ [][SenderNext]_vars

\* Senders being constructed while the Senders already constructed send
\* and the webhook handler serves requests, in any interleaving
ConfigRequests ==
    { [method |-> "GET", token |-> "good", challenge |-> "c1", body |-> EmptyBody],
      [method |-> "POST", token |-> "", challenge |-> "", body |->
          Body(TRUE, TRUE, "envelope", <<Entry("object", <<"P1", 100>>, <<CbMessage>>)>>)],
      [method |-> "PUT", token |-> "good", challenge |-> "c1", body |-> EmptyBody] }

ConfigTransports ==
    { [err |-> TRUE, resp |-> [StatusCode |-> 0, Body |-> NoBody]],
      [err |-> FALSE, resp |-> [StatusCode |-> 200, Body |->
          JSONBody(JObj("recipient_id" :> JStr("U1") @@ "message_id" :> JStr("mid.1")))]] }

ConfigInit == WebhookInit /\ SenderIdle /\ NoSender /\ NoRender

ConfigNext ==
    \/ \E accessToken \in AccessTokens, opts \in OptionLists : NewSender(accessToken, opts)
    \/ \E op \in {"SendMessage", "SendAction"} : Call(op, "active")
    \/ \E t \in ConfigTransports : DoReturns(t)
    \/ SenderReturn
    \/ \E r \in ConfigRequests : ServeHTTP(r)
    \/ EmitEvent
    \/ WriteOK
    \/ Return

ConfigSpec == ConfigInit /\ [][ConfigNext]_vars

\* Source called on an Object of any variant
RenderInit ==
    /\ verifyTokens = {}
    /\ Idle
    /\ SenderIdle
    /\ NoSender
    /\ rendering \in Objects
    /\ source = <<>>

RenderNext == CallSource

RenderSpec == RenderInit /\ [][RenderNext]_vars

----------------------------------------------------------------------------
(* What the claims speak of, read off the request itself: the callbacks of *)
(* a body in array order, and what makes a body unparseable.               *)

\* the handler has stopped serving the request
Ended == pc \in {"done", "panic"}

\* the callbacks of one element of "entry", each with that element
EntryCallbacks(e) ==
    IF e.kind = "object" /\ Field(e, "messaging").kind = "array"
    THEN [k \in 1..Len(Field(e, "messaging").arr) |->
            [entry |-> e, callback |-> Field(e, "messaging").arr[k]]]
    ELSE <<>>

RECURSIVE Flatten(_)
Flatten(entries) ==
    IF entries = <<>> THEN <<>>
    ELSE EntryCallbacks(Head(entries)) \o Flatten(Tail(entries))

\* the flattened sequence of callbacks of a body
BodyCallbacks(body) ==
    IF body.syntax /\ BodyJSON(body).kind = "object"
                   /\ Field(BodyJSON(body), "entry").kind = "array"
    THEN Flatten(Field(BodyJSON(body), "entry").arr)
    ELSE <<>>

\* the body cannot be read, is no JSON text, or has a value that is not of
\* the envelope's kind at some place
Malformed(body) ==
    \/ ~body.read
    \/ ~body.syntax
    \/ body.top \in {"string", "mistyped"}
    \/ \E k \in 1..Len(body.entries) :
          \/ body.entries[k].shape = "mistyped"
          \/ \E n \in 1..Len(body.entries[k].messaging) :
                body.entries[k].messaging[n].shape = "mistyped"

ParsedPOST == req.method = "POST" /\ ~Malformed(req.body)

\* the known fields of a callback in the order of precedence, and the
\* event each yields
Precedence ==
    << "message", "delivery", "read", "postback", "account_linking", "optin",
       "referral" >>
VariantOf ==
    (  "message" :> "MessageReceived" @@ "delivery" :> "MessageDelivered"
    @@ "read" :> "MessageRead" @@ "postback" :> "PostbackReceived"
    @@ "optin" :> "OptInTapped" @@ "referral" :> "ReferralUsed" )

\* a field of the callback is populated: present and not null
Populated(c, key) == key \in DOMAIN c.obj /\ c.obj[key].kind # "null"

\* the index in Precedence of the earliest populated field of c, 0 if none
FirstPopulated(c) ==
    IF \E n \in 1..Len(Precedence) : Populated(c, Precedence[n])
    THEN CHOOSE n \in 1..Len(Precedence) :
            /\ Populated(c, Precedence[n])
            /\ \A m \in 1..(n - 1) : ~Populated(c, Precedence[m])
    ELSE 0

ExpectedVariant(c) ==
    IF FirstPopulated(c) = 0 THEN "CallbackUnsupported"
    ELSE IF Precedence[FirstPopulated(c)] = "account_linking"
         THEN IF Field(c.obj["account_linking"], "status").str = "linked"
              THEN "AccountLinked" ELSE "AccountUnlinked"
    ELSE VariantOf[Precedence[FirstPopulated(c)]]

VerificationVariants == {"VerificationFailed", "VerificationCompleted"}
CallbackVariants ==
    {"MessageReceived", "MessageDelivered", "MessageRead", "PostbackReceived",
     "AccountLinked", "AccountUnlinked", "OptInTapped", "ReferralUsed",
     "CallbackUnsupported"}

\* the top-level keys of a callback that a field of callback is tagged with
RecognizedKeys ==
    {"sender", "recipient", "timestamp", "message", "delivery", "read",
     "postback", "account_linking", "optin", "referral"}

----------------------------------------------------------------------------
(* The claims. *)

\* C1: when the handler of a POST whose body parses has ended, the events
\* given to the listener are the callbacks of the body in array order
\* (entries in order, callbacks of an entry in order), one event for each
\* callback; and while it runs, the events given so far are those of the
\* first callbacks.
C1_OneEventPerCallbackInOrder ==
    (ParsedPOST /\ pc # "idle") =>
        LET flat == BodyCallbacks(req.body)
        IN  /\ Len(events) <= Len(flat)
            /\ Ended => Len(events) = Len(flat)
            /\ \A k \in 1..Len(events) :
                  flat[k].callback.kind = "object" =>
                      events[k] = Event(DecCallback(flat[k].callback).v,
                                        Field(flat[k].entry, "id").str)

\* C2: the variant of the event of a callback is that of the earliest
\* populated field in the order message, delivery, read, postback,
\* account_linking, optin, referral, and CallbackUnsupported when none is
\* populated; status "linked" gives AccountLinked with the payload's
\* authorization code, any other status AccountUnlinked with an empty one.
C2_FirstMatchWins ==
    (ParsedPOST /\ pc # "idle") =>
        LET flat == BodyCallbacks(req.body)
        IN  /\ Len(events) <= Len(flat)
            /\ \A k \in 1..Len(events) :
                  /\ events[k].type = ExpectedVariant(flat[k].callback)
                  /\ events[k].type = "AccountLinked" =>
                        events[k].fields["authorization_code"] =
                            Field(flat[k].callback.obj["account_linking"],
                                  "authorization_code").str
                  /\ events[k].type = "AccountUnlinked" =>
                        events[k].fields["authorization_code"] = ""

\* C2 witness: a callback with account_linking (status linked), optin and
\* referral populated has yielded AccountLinked with the code
C2_Witness ==
    /\ pc = "done"
    /\ ParsedPOST
    /\ Len(req.body.entries) = 1
    /\ Len(req.body.entries[1].messaging) = 1
    /\ req.body.entries[1].messaging[1].known = {"optin", "referral"}
    /\ req.body.entries[1].messaging[1].linking = "linked"
    /\ Len(events) = 1
    /\ events[1].type = "AccountLinked"
    /\ events[1].fields["authorization_code"] = "code1"

\* C3: a GET gives exactly one event: VerificationCompleted with the
\* challenge, status 200 and the challenge as the body when
\* hub.verify_token is in the configured set; VerificationFailed with the
\* token and the mismatch error, status 403 and no body when it is not.
C3_VerificationByMembership ==
    (req.method = "GET" /\ pc # "idle") =>
        /\ pc = "done"
        /\ Len(events) = 1
        /\ IF req.token \in verifyTokens
           THEN /\ events[1].type = "VerificationCompleted"
                /\ events[1].fields = ("Challenge" :> req.challenge)
                /\ status = 200
                /\ respBody = req.challenge
           ELSE /\ events[1].type = "VerificationFailed"
                /\ events[1].fields = ("Token" :> req.token
                                       @@ "Err" :> "verify token mismatch")
                /\ status = 403
                /\ respBody = ""
        /\ verifyTokens = {} => events[1].type = "VerificationFailed"

\* C3 witness: a GET with a configured token has been answered 200 with
\* the challenge
C3_Witness ==
    /\ pc = "done"
    /\ req.method = "GET"
    /\ req.token = "good"
    /\ req.challenge = "c1"
    /\ verifyTokens = {"good"}
    /\ status = 200
    /\ respBody = "c1"
    /\ Len(events) = 1
    /\ events[1].type = "VerificationCompleted"

\* C4: a POST whose body parses ends with status 200 and an empty body,
\* whatever the number of its entries and callbacks, and the listener is
\* not called for a request after its status is written.
C4_OKAfterAllCallbacks ==
    /\ (ParsedPOST /\ Ended) => (status = 200 /\ respBody = "")
    /\ status # 0 => Len(events) = emittedAtWrite

\* C5: a POST whose body cannot be read or parsed is answered 400 and the
\* listener is never called for it.
C5_MalformedBodyRejected ==
    (req.method = "POST" /\ Malformed(req.body) /\ pc # "idle") =>
        /\ pc = "done"
        /\ status = 400
        /\ respBody = ""
        /\ events = <<>>

\* C5 witness: a body whose second callback does not fit the envelope,
\* after a first one that does, has been answered 400
C5_Witness ==
    /\ pc = "done"
    /\ req.method = "POST"
    /\ Len(req.body.entries) = 1
    /\ req.body.entries[1].messaging = <<CbMessage, CbMistyped>>
    /\ status = 400
    /\ events = <<>>

\* C6: verification events are given only while a GET is served, callback
\* events only while a POST is served, and a request of another method is
\* answered 405 without an event.
C6_EventsByMethod ==
    /\ \A k \in 1..Len(events) :
          /\ events[k].type \in VerificationVariants \cup CallbackVariants
          /\ events[k].type \in VerificationVariants => req.method = "GET"
          /\ events[k].type \in CallbackVariants => req.method = "POST"
    /\ (pc # "idle" /\ req.method \notin {"GET", "POST"}) =>
          (pc = "done" /\ status = 405 /\ respBody = "" /\ events = <<>>)

\* C6 witness: a DELETE has been answered 405
C6_Witness ==
    /\ pc = "done"
    /\ req.method = "DELETE"
    /\ status = 405
    /\ events = <<>>

\* C7 as claimed: the Metadata of the event of a callback holds the id and
\* the time of the entry of the callback, and the callback's sender.id and
\* recipient.id.
C7_MetadataFromEntryTime ==
    (ParsedPOST /\ pc # "idle") =>
        LET flat == BodyCallbacks(req.body)
        IN  /\ Len(events) <= Len(flat)
            /\ \A k \in 1..Len(events) :
                  events[k].Metadata =
                      [PageID |-> Field(flat[k].entry, "id").str,
                       Timestamp |-> Field(flat[k].entry, "time").num,
                       SenderID |-> Field(Field(flat[k].callback, "sender"), "id").str,
                       RecipientID |-> Field(Field(flat[k].callback, "recipient"), "id").str]

\* C7 as amended: the Metadata of the event of a callback holds the id of
\* the entry of the callback, and the callback's own timestamp, sender.id
\* and recipient.id; the time of the entry is not in it.
C7_MetadataFromCallbackTimestamp ==
    (ParsedPOST /\ pc # "idle") =>
        LET flat == BodyCallbacks(req.body)
        IN  /\ Len(events) <= Len(flat)
            /\ \A k \in 1..Len(events) :
                  events[k].Metadata =
                      [PageID |-> Field(flat[k].entry, "id").str,
                       Timestamp |-> Field(flat[k].callback, "timestamp").num,
                       SenderID |-> Field(Field(flat[k].callback, "sender"), "id").str,
                       RecipientID |-> Field(Field(flat[k].callback, "recipient"), "id").str]

\* C7 witness: the second entry (time 200) holds a callback of timestamp
\* 300, and its event has the timestamp 300 and the page id of that entry
C7_Witness ==
    /\ pc = "done"
    /\ ParsedPOST
    /\ Len(req.body.entries) = 2
    /\ req.body.entries[1].id = "P1"
    /\ req.body.entries[2].id = "P2"
    /\ req.body.entries[2].time = 200
    /\ req.body.entries[1].messaging = <<CbMessage>>
    /\ req.body.entries[2].messaging = <<CbUnknown>>
    /\ Len(events) = 2
    /\ events[2].Metadata = [PageID |-> "P2", Timestamp |-> 300,
                             SenderID |-> "U1", RecipientID |-> "P9"]

\* C8: the CallbackUnsupported event of a callback holds every
\* unrecognized top-level key of the callback in Extra, with its value.
C8_ExtraHoldsUnrecognizedKeys ==
    (ParsedPOST /\ pc # "idle") =>
        LET flat == BodyCallbacks(req.body)
        IN  /\ Len(events) <= Len(flat)
            /\ \A k \in 1..Len(events) :
                  events[k].type = "CallbackUnsupported" =>
                      \A key \in DOMAIN flat[k].callback.obj \ RecognizedKeys :
                          /\ key \in DOMAIN events[k].fields["Extra"]
                          /\ events[k].fields["Extra"][key] = flat[k].callback.obj[key]


\* the platform's error envelope, read off a response body: the value of
\* "error", the kind each of its keys must have, and whether the body is
\* such an envelope or cannot be decoded as one
ErrorOf(body) == Field(body.json, "error")
ErrorKinds ==
    (  "message" :> "string" @@ "type" :> "string" @@ "code" :> "number"
    @@ "error_subcode" :> "number" @@ "fbtrace_id" :> "string" )
WrongKind(j, kinds) ==
    \E key \in DOMAIN kinds :
        key \in DOMAIN j.obj /\ j.obj[key].kind \notin {kinds[key], "null"}
WellFormedEnvelope(body) ==
    /\ body.read
    /\ body.syntax
    /\ body.json.kind = "object"
    /\ ErrorOf(body).kind = "object"
    /\ ~WrongKind(ErrorOf(body), ErrorKinds)
Undecodable(body) ==
    /\ body.read
    /\ \/ ~body.syntax
       \/ body.json.kind \notin {"object", "null"}
       \/ body.json.kind = "object" /\ ErrorOf(body).kind \notin {"object", "null"}
       \/ body.json.kind = "object" /\ ErrorOf(body).kind = "object"
                                    /\ WrongKind(ErrorOf(body), ErrorKinds)

\* C9: for a response whose status is not in 200..299, SendMessage and
\* SendAction return a non-nil *fbError and no response value; its fields
\* are those of the envelope when the body is a well-formed envelope, and
\* its message is the failure and its code the HTTP status when the body
\* cannot be read or decoded.
C9_NonSuccessIsTypedError ==
    (/\ spc = "done"
     /\ ~transport.err
     /\ (transport.resp.StatusCode < 200 \/ transport.resp.StatusCode > 299)) =>
        LET body == transport.resp.Body
        IN  /\ ~result.err.nil
            /\ result.err.type = "*fbError"
            /\ result.resp = <<>>
            /\ WellFormedEnvelope(body) =>
                  /\ result.err.Message = Field(ErrorOf(body), "message").str
                  /\ result.err.Type = Field(ErrorOf(body), "type").str
                  /\ result.err.Code = Field(ErrorOf(body), "code").num
                  /\ result.err.ErrorSubcode = Field(ErrorOf(body), "error_subcode").num
                  /\ result.err.FBTraceID = Field(ErrorOf(body), "fbtrace_id").str
            /\ ~body.read =>
                  /\ result.err.Message = "unexpected EOF"
                  /\ result.err.Code = transport.resp.StatusCode
            /\ Undecodable(body) =>
                  /\ result.err.Message = "json: cannot unmarshal"
                  /\ result.err.Code = transport.resp.StatusCode

\* C9 witness: SendMessage has returned the error of a well-formed
\* envelope that came with status 400
C9_Witness ==
    /\ spc = "done"
    /\ sop = "SendMessage"
    /\ ~transport.err
    /\ transport.resp.StatusCode = 400
    /\ WellFormedEnvelope(transport.resp.Body)
    /\ result.resp = <<>>
    /\ result.err.Code = 190
    /\ result.err.ErrorSubcode = 1234567
    /\ result.err.Type = "OAuthException"

\* C10: when the context given to SendMessage or SendAction is cancelled,
\* or its deadline has passed, before the response arrives, the operation
\* returns an error.
C10_DoneContextAbortsSend ==
    (spc = "done" /\ ctxAtResponse # "active") => ~result.err.nil

----------------------------------------------------------------------------
(* Configuration. *)

\* the access_token values in the query of URL value u
AccessTokenOf(u) ==
    IF "access_token" \in DOMAIN Query(u) THEN Query(u)["access_token"] ELSE <<>>

\* a step keeps the verify-token set, every Sender constructed so far and
\* every url.URL value that exists so far: the default endpoint, the URLs
\* of the callers, and the endpoints of the Senders
ConfigurationKept ==
    /\ verifyTokens' = verifyTokens
    /\ Len(senders') >= Len(senders)
    /\ \A i \in 1..Len(senders) : senders'[i] = senders[i]
    /\ Len(urls') >= Len(urls)
    /\ \A a \in 1..Len(urls) : urls'[a] = urls[a]

\* every Sender's endpoint, and the URL of every request it sends, has the
\* Sender's access token as its one access_token
TokenCarried ==
    /\ \A i \in 1..Len(senders) :
          AccessTokenOf(urls[senders[i].endpoint]) = << senders[i].accessToken >>
    /\ spc # "idle" => AccessTokenOf(call.URL) = << senders[call.sender].accessToken >>

\* C11: once constructed, a Sender's endpoint, access token and HTTP client
\* and the handler's verify-token set are changed by no SendMessage,
\* SendAction or webhook request in any interleaving; constructing a Sender
\* changes neither the default endpoint, nor a URL a caller supplied, nor
\* an earlier Sender's endpoint; so every Sender's endpoint carries exactly
\* the access token the Sender was constructed with.
C11_ConfigurationFixedAtConstruction ==
    [][ConfigurationKept /\ TokenCarried']_vars

\* C11 witness: two Senders were constructed on the default endpoint with
\* different access tokens, the first has sent a message after the second
\* was constructed, and the handler has served a request
C11_Witness ==
    /\ Len(senders) = 2
    /\ senders[1].accessToken # senders[2].accessToken
    /\ urls[senders[1].endpoint].Host = InitURLs[defaultMessengerEndpoint].Host
    /\ urls[senders[2].endpoint].Host = InitURLs[defaultMessengerEndpoint].Host
    /\ spc = "done"
    /\ call.sender = 1
    /\ AccessTokenOf(call.URL) = << senders[1].accessToken >>
    /\ pc = "done"
    /\ verifyTokens # {}

----------------------------------------------------------------------------
(* Rendering. *)

\* the key each field of an Object is rendered under; AskForLocation has
\* none of its own, it chooses the value of content_type
KeyOf ==
    (  "To" :> "recipient" @@ "Text" :> "text" @@ "Attachment" :> "attachment"
    @@ "QuickReplies" :> "quick_replies" @@ "Metadata" :> "metadata"
    @@ "NotificationType" :> "notification_type"
    @@ "Title" :> "title" @@ "ImageURL" :> "image_url" @@ "Payload" :> "payload"
    @@ "Type" :> "type" @@ "URL" :> "url" @@ "AttachmentID" :> "attachment_id"
    @@ "Reusable" :> "is_reusable"
    @@ "Buttons" :> "buttons" @@ "Elements" :> "elements"
    @@ "TopElementStyle" :> "top_element_style"
    @@ "Subtitle" :> "subtitle" @@ "ItemURL" :> "item_url"
    @@ "DefaultAction" :> "default_action"
    @@ "WebviewHeightRatio" :> "webview_height_ratio"
    @@ "MessengerExtensions" :> "messenger_extensions"
    @@ "FallbackURL" :> "fallback_url" @@ "PhoneNumber" :> "payload" )

\* field f of Object o is unset: the empty string, false, the empty list,
\* the nil child
IsUnset(o, f) ==
    IF f \in {"Reusable", "MessengerExtensions"} THEN o[f] = FALSE
    ELSE IF f \in {"To", "Attachment", "QuickReplies", "Buttons", "Elements", "DefaultAction"}
         THEN o[f] = <<>>
    ELSE o[f] = ""

\* the keys an Object's own fields are rendered under: those of its tree,
\* of the message of a Message and of the payload of an attachment
OwnKeys(tree) ==
    DOMAIN tree.obj \cup DOMAIN Field(tree, "message").obj
                    \cup DOMAIN Field(tree, "payload").obj

\* no key of JSON value j, at any depth, has the value null
RECURSIVE NoNullValue(_)
NoNullValue(j) ==
    CASE j.kind = "object" ->
            \A k \in DOMAIN j.obj : j.obj[k].kind # "null" /\ NoNullValue(j.obj[k])
      [] j.kind = "array" -> \A k \in 1..Len(j.arr) : NoNullValue(j.arr[k])
      [] OTHER -> TRUE

\* C12: for every variant of the object model, an unset field (empty
\* string, false, empty or nil list, nil child) is absent from the
\* rendered tree, and no key of a rendered tree has a null value.
C12_UnsetFieldsAbsentNeverNull ==
    source # <<>> =>
        /\ NoNullValue(Marshal(source[1]))
        /\ \A f \in DOMAIN rendering \cap DOMAIN KeyOf :
              IsUnset(rendering, f) => KeyOf[f] \notin OwnKeys(source[1])

\* the message body of the tree rendered for a Message: the map under the
\* key message
MessageBody == Field(source[1], "message").obj

\* C13: the rendered message body has at most one of the keys text and
\* attachment.  With a non-empty text it has text and no attachment, even
\* when an attachment is set, and it has quick_replies exactly when the
\* list of quick replies is non-empty, the replies rendered in list order.
\* With an empty text it has attachment exactly when one is set, and has
\* no quick_replies.
C13_TextOrAttachment ==
    (source # <<>> /\ rendering.variant = "Message") =>
        /\ ~({"text", "attachment"} \subseteq DOMAIN MessageBody)
        /\ rendering.Text # "" =>
              /\ "text" \in DOMAIN MessageBody
              /\ MessageBody["text"] = JStr(rendering.Text)
              /\ "attachment" \notin DOMAIN MessageBody
              /\ "quick_replies" \in DOMAIN MessageBody <=> rendering.QuickReplies # <<>>
              /\ "quick_replies" \in DOMAIN MessageBody =>
                    /\ MessageBody["quick_replies"].kind = "array"
                    /\ Len(MessageBody["quick_replies"].arr) = Len(rendering.QuickReplies)
                    /\ \A k \in 1..Len(rendering.QuickReplies) :
                          MessageBody["quick_replies"].arr[k]
                              = QuickReplySource(rendering.QuickReplies[k])
        /\ rendering.Text = "" =>
              /\ "text" \notin DOMAIN MessageBody
              /\ "attachment" \in DOMAIN MessageBody <=> rendering.Attachment # <<>>
              /\ "quick_replies" \notin DOMAIN MessageBody

\* C13 witness: a Message with a text, an attachment and two different
\* quick replies has been rendered: the body has the text and both replies
\* in their order, and no attachment
C13_Witness ==
    /\ source # <<>>
    /\ rendering.variant = "Message"
    /\ rendering.Text = "hi"
    /\ rendering.Attachment # <<>>
    /\ Len(rendering.QuickReplies) = 2
    /\ rendering.QuickReplies[1] # rendering.QuickReplies[2]
    /\ DOMAIN MessageBody = {"text", "quick_replies"}
    /\ Field(MessageBody["quick_replies"].arr[1], "content_type") = JStr("text")
    /\ Field(MessageBody["quick_replies"].arr[2], "content_type") = JStr("location")

=============================================================================
